---- MODULE Spec2Model ----
(***************************************************************************)
(* Model of the data validation / transformation pipeline of the three     *)
(* visualizations: circular progress bar (gauge), stacked bar chart and    *)
(* scatter plot.                                                           *)
(*                                                                         *)
(* A visualization instance is one React component.  The host calls its    *)
(* methods with `this.props` and the NrqlQuery result rows; every method   *)
(* is synchronous and keeps nothing between calls.  The state machine      *)
(* therefore is: idle -> (one method applied to drawn props and            *)
(* arguments, its return value in `out`) -> idle.                          *)
(***************************************************************************)
EXTENDS Integers, Sequences, FiniteSets, TLC

VARIABLES
    widget,   \* which component this instance is: "gauge", "stacked", "scatter"
    op,       \* "idle", or the method whose call has just returned
    props,    \* this.props seen by the call
    args,     \* the arguments of the call
    out,      \* the value the call returned
    leftover  \* what the last render pass left in its local objects

vars == <<widget, op, props, args, out, leftover>>

(***************************************************************************)
(* JavaScript values.  A number is [t |-> "num", v |-> n]; null, undefined *)
(* and NaN carry v = 0 so that any two values can be compared.             *)
(***************************************************************************)
Num(n) == [t |-> "num", v |-> n]
Null == [t |-> "null", v |-> 0]
Undefined == [t |-> "undefined", v |-> 0]
NaN == [t |-> "nan", v |-> 0]
\* a string; only a criticalThreshold is ever one
Str(s) == [t |-> "str", v |-> s]

IsNum(x) == x.t = "num"

\* v === null || v === undefined
IsNullish(x) == x.t \in {"null", "undefined"}

\* ToBoolean on the values of the model: 0, NaN, null and undefined are falsy.
Truthy(x) == x.t = "num" /\ x.v # 0

\* ToNumber: null -> 0, undefined -> NaN.
ToNumber(x) == CASE x.t = "num" -> x
                 [] x.t = "null" -> Num(0)
                 [] OTHER -> NaN

\* a || b
JsOr(a, b) == IF Truthy(a) THEN a ELSE b

\* Math.min(a, b), Math.max(a, b): NaN if either argument converts to NaN.
MathMin2(a, b) ==
    LET x == ToNumber(a)
        y == ToNumber(b)
    IN  IF x.t = "nan" \/ y.t = "nan" THEN NaN
        ELSE IF x.v <= y.v THEN x ELSE y

MathMax2(a, b) ==
    LET x == ToNumber(a)
        y == ToNumber(b)
    IN  IF x.t = "nan" \/ y.t = "nan" THEN NaN
        ELSE IF x.v >= y.v THEN x ELSE y

\* a > b and a < b on numbers: false as soon as one side is NaN.
JsGt(a, b) == a.t = "num" /\ b.t = "num" /\ a.v > b.v
JsLt(a, b) == a.t = "num" /\ b.t = "num" /\ a.v < b.v

(***************************************************************************)
(* parseFloat on strings made of digits, blanks, "-" and other characters  *)
(* (no ".", no exponent: the model has integers only).  Leading blanks are *)
(* skipped, an optional "-" and the longest run of digits are read, and    *)
(* whatever follows is ignored; no digit at that place gives NaN.          *)
(***************************************************************************)
Digits == <<"0", "1", "2", "3", "4", "5", "6", "7", "8", "9">>

IsDigit(c) == \E i \in 1..10 : Digits[i] = c

DigitVal(c) == (CHOOSE i \in 1..10 : Digits[i] = c) - 1

Char(s, i) == SubSeq(s, i, i)

RECURSIVE SkipBlanks(_, _)
SkipBlanks(s, i) ==
    IF i <= Len(s) /\ Char(s, i) = " " THEN SkipBlanks(s, i + 1) ELSE i

RECURSIVE ReadDigits(_, _, _)
\* the value of the longest run of digits of s from position i on, after acc
ReadDigits(s, i, acc) ==
    IF i <= Len(s) /\ IsDigit(Char(s, i))
    THEN ReadDigits(s, i + 1, 10 * acc + DigitVal(Char(s, i)))
    ELSE acc

ParseFloatStr(s) ==
    LET i == SkipBlanks(s, 1)
        neg == i <= Len(s) /\ Char(s, i) = "-"
        j == IF neg THEN i + 1 ELSE i
    IN  IF j <= Len(s) /\ IsDigit(Char(s, j))
        THEN Num((IF neg THEN -1 ELSE 1) * ReadDigits(s, j, 0))
        ELSE NaN

\* parseFloat(x): a number is its own value, a string is parsed, and
\* undefined reads as the string "undefined", which is NaN.
parseFloat(x) == CASE x.t = "num" -> x
                   [] x.t = "str" -> ParseFloatStr(x.v)
                   [] OTHER -> NaN

isNaN(x) == ToNumber(x).t = "nan"

(***************************************************************************)
(* NrqlQuery result rows.  A row is                                        *)
(*   [data |-> <<point, ...>>,                                             *)
(*    metadata |-> [color, name, groups |-> <<group, ...>>, units_data]]   *)
(* a group is [type, value, displayName] and a point is an object, kept    *)
(* as the sequence of its [k, v] entries in key order.                     *)
(***************************************************************************)
FunctionGroup(name) == [type |-> "function", value |-> name, displayName |-> name]

FacetGroup(attr, val) == [type |-> "facet", value |-> val, displayName |-> attr]

Entry(k, v) == [k |-> k, v |-> v]

Row(points, color, groups) ==
    [data |-> points,
     metadata |-> [color |-> color, name |-> "series", groups |-> groups,
                   units_data |-> <<Entry("y", "COUNT")>>]]

HasKey(obj, key) == \E i \in 1..Len(obj) : obj[i].k = key

\* obj[key]: undefined when the object has no such key
Get(obj, key) ==
    IF HasKey(obj, key)
    THEN obj[CHOOSE i \in 1..Len(obj) : obj[i].k = key].v
    ELSE Undefined

\* units_data[key]; the tag "undefined" stands for a missing entry
UnitOf(units, key) ==
    IF HasKey(units, key)
    THEN units[CHOOSE i \in 1..Len(units) : units[i].k = key].v
    ELSE "undefined"

Keys(obj) == [i \in 1..Len(obj) |-> obj[i].k]

Contains(seq, x) == \E i \in 1..Len(seq) : seq[i] = x

\* Array.prototype.indexOf, 1-based; 0 when absent (JavaScript's -1)
IndexOf(seq, x) ==
    IF Contains(seq, x) THEN CHOOSE i \in 1..Len(seq) :
                                 seq[i] = x /\ \A j \in 1..(i - 1) : seq[j] # x
    ELSE 0

\* Set.prototype.add over a sequence that keeps insertion order
SetAdd(seq, x) == IF Contains(seq, x) THEN seq ELSE Append(seq, x)

RECURSIVE SetAddAll(_, _)
SetAddAll(seq, xs) ==
    IF xs = <<>> THEN seq ELSE SetAddAll(SetAdd(seq, Head(xs)), Tail(xs))

RECURSIVE Filter(_, _)
\* groups.filter(({ type }) => type === ty)
Filter(groups, ty) ==
    IF groups = <<>> THEN <<>>
    ELSE IF Head(groups).type = ty
         THEN <<Head(groups)>> \o Filter(Tail(groups), ty)
         ELSE Filter(Tail(groups), ty)

(***************************************************************************)
(* The Grouping Classifier (utils/nrql-validation-helper) and the facet    *)
(* label (utils/facets), after sections 4.1 and 4.3 of the specification.  *)
(* Each set is kept in insertion order, as a JavaScript Set is.            *)
(***************************************************************************)
RECURSIVE GroupIdentities(_, _, _)
GroupIdentities(rawData, ty, acc) ==
    IF rawData = <<>> THEN acc
    ELSE LET gs == Filter(Head(rawData).metadata.groups, ty)
             names == [i \in 1..Len(gs) |-> gs[i].displayName]
         IN  GroupIdentities(Tail(rawData), ty, SetAddAll(acc, names))

\* uniqueAggregates and uniqueFacets of getUniqueAggregatesAndFacets(rawData)
uniqueAggregatesOf(rawData) == GroupIdentities(rawData, "function", <<>>)

uniqueFacetsOf(rawData) == GroupIdentities(rawData, "facet", <<>>)

RECURSIVE PointKeys(_, _)
PointKeys(points, acc) ==
    IF points = <<>> THEN acc
    ELSE PointKeys(Tail(points), SetAddAll(acc, Keys(Head(points))))

RECURSIVE NonAggregateKeys(_, _)
NonAggregateKeys(rawData, acc) ==
    IF rawData = <<>> THEN acc
    ELSE LET row == Head(rawData)
         IN  NonAggregateKeys(Tail(rawData),
                 IF Filter(row.metadata.groups, "function") = <<>>
                 THEN PointKeys(row.data, acc)
                 ELSE acc)

\* uniqueNonAggregates of getUniqueNonAggregates(rawData): the attribute keys
\* of the data points of rows that carry no aggregate function
uniqueNonAggregatesOf(rawData) == NonAggregateKeys(rawData, <<>>)

RECURSIVE JoinValues(_)
JoinValues(groups) ==
    IF groups = <<>> THEN ""
    ELSE IF Len(groups) = 1 THEN Head(groups).value
    ELSE Head(groups).value \o ", " \o JoinValues(Tail(groups))

\* getFacetLabel(groups): the comma-joined values of the facet groups
getFacetLabel(groups) == JoinValues(Filter(groups, "facet"))

\* The outcome of a call: the value it returned, or the TypeError it threw on
\* reading a property of undefined.
Returned(v) == [threw |-> FALSE, value |-> v]
TypeError == [threw |-> TRUE, value |-> "TypeError"]

(***************************************************************************)
(* Circular progress bar (gauge)                                           *)
(***************************************************************************)
Green == "green6"
Red == "red6"

\* nrqlInputIsValid of the gauge: data[0] alone decides isNonTimeseries
GaugeNrqlInputIsValid(data) ==
    IF data = <<>> THEN TypeError
    ELSE LET seriesEntries == data[1].data
             isNonTimeseries == Len(seriesEntries) = 1
         IN  Returned(/\ Len(uniqueAggregatesOf(data)) = 1
                      /\ Len(uniqueFacetsOf(data)) = 0
                      /\ isNonTimeseries)

\* getColor with the comparisons made non-strict (>= and <=)
getColor_NonStrict(p, value, colorFromData) ==
    LET threshold == parseFloat(p.thresholds.criticalThreshold)
    IN  IF isNaN(threshold) THEN colorFromData
        ELSE IF p.thresholds.highValuesAreSuccess
             THEN (IF JsGt(value, threshold) \/ value = threshold
                   THEN Green ELSE Red)
             ELSE (IF JsLt(value, threshold) \/ value = threshold
                   THEN Green ELSE Red)

\* getColor(value, colorFromData) under this.props = p
getColor(p, value, colorFromData) ==
    LET threshold == parseFloat(p.thresholds.criticalThreshold)
    IN  IF isNaN(threshold) THEN colorFromData
        ELSE IF p.thresholds.highValuesAreSuccess
             THEN (IF JsGt(value, threshold) THEN Green ELSE Red)
             ELSE (IF JsLt(value, threshold) THEN Green ELSE Red)

(***************************************************************************)
(* JavaScript objects used as maps: the sequence of [k, v] entries in      *)
(* insertion order.  Object.entries lists the keys that are array indices  *)
(* ("0", "7", "200") first, in ascending numeric order, and then the       *)
(* other keys in insertion order.                                          *)
(***************************************************************************)
\* obj[key] = val
ObjSet(obj, key, val) ==
    IF HasKey(obj, key)
    THEN [i \in 1..Len(obj) |-> IF obj[i].k = key THEN Entry(key, val) ELSE obj[i]]
    ELSE Append(obj, Entry(key, val))

\* a canonical numeric string: digits only, no leading zero unless it is "0"
IsIndexKey(key) ==
    /\ Len(key) >= 1
    /\ \A i \in 1..Len(key) : IsDigit(Char(key, i))
    /\ (Len(key) = 1 \/ Char(key, 1) # "0")

IndexValue(key) == ReadDigits(key, 1, 0)

RECURSIVE InsertByIndex(_, _)
\* e put into sorted, a sequence of entries with index keys in ascending order
InsertByIndex(sorted, e) ==
    IF sorted = <<>> THEN <<e>>
    ELSE IF IndexValue(e.k) < IndexValue(Head(sorted).k)
         THEN <<e>> \o sorted
         ELSE <<Head(sorted)>> \o InsertByIndex(Tail(sorted), e)

RECURSIVE IndexEntries(_, _)
IndexEntries(obj, acc) ==
    IF obj = <<>> THEN acc
    ELSE IndexEntries(Tail(obj),
             IF IsIndexKey(Head(obj).k) THEN InsertByIndex(acc, Head(obj)) ELSE acc)

RECURSIVE NamedEntries(_)
NamedEntries(obj) ==
    IF obj = <<>> THEN <<>>
    ELSE IF IsIndexKey(Head(obj).k) THEN NamedEntries(Tail(obj))
         ELSE <<Head(obj)>> \o NamedEntries(Tail(obj))

\* Object.entries(obj)
ObjectEntries(obj) == IndexEntries(obj, <<>>) \o NamedEntries(obj)

(***************************************************************************)
(* Stacked bar chart                                                       *)
(***************************************************************************)
\* the overflow bucket of a FACET query
OtherLabel == "Other"

\* validateNRQLInput(data): the groups of data[0] alone are counted
validateNRQLInput(data) ==
    IF data = <<>> THEN TypeError
    ELSE LET groups == data[1].metadata.groups
             numOfAggregates == Len(Filter(groups, "function"))
             numOfFacets == Len(Filter(groups, "facet"))
         IN  Returned(numOfAggregates = 1 /\ numOfFacets > 0)

RECURSIVE BarLabels(_, _)
BarLabels(series, acc) ==
    IF series = <<>> THEN acc
    ELSE BarLabels(Tail(series), SetAdd(acc, Head(series).x))

RECURSIVE AllBarLabels(_, _)
AllBarLabels(data, acc) ==
    IF data = <<>> THEN acc
    ELSE AllBarLabels(Tail(data), BarLabels(Head(data), acc))

\* getBarCount(data): the size of the Set of the x of every bar segment
getBarCount(data) == Len(AllBarLabels(data, <<>>))

\* the segment taken from the first facet and the bar from the others
getFacetLabels_FirstFacetIsSegment(groups) ==
    LET facetGroups == Filter(groups, "facet")
    IN  [barLabel |-> getFacetLabel(Tail(facetGroups)),
         segmentLabel |-> facetGroups[1].value]

\* getFacetLabels(groups), for a row with a facet group
getFacetLabels(groups) ==
    LET facetGroups == Filter(groups, "facet")
    IN  [barLabel |->
             getFacetLabel(SubSeq(facetGroups, 1, Len(facetGroups) - 1)),
         segmentLabel |-> facetGroups[Len(facetGroups)].value]

\* facetGroups[facetGroups.length - 1].value throws on a row without facet
getFacetLabelsThrows(groups) == Filter(groups, "facet") = <<>>

\* data[0].y of a row with a data point
FirstY(row) == Get(row.data[1], "y")

\* the "Other" bar is kept whatever the configuration says
StackedKeepsRow_KeepOther(p, row) == TRUE

\* the row passes `if (!visible && barLabel === 'Other') return acc`
StackedKeepsRow(p, row) ==
    ~(~p.other.visible /\ getFacetLabels(row.metadata.groups).barLabel = OtherLabel)

\* the reduce step throws on this row: no facet group, or a kept row with no
\* data point
StackedRowThrows(p, row) ==
    \/ getFacetLabelsThrows(row.metadata.groups)
    \/ (StackedKeepsRow(p, row) /\ row.data = <<>>)

RECURSIVE FacetBreakdown_LastColor(_, _, _)
\* the reduce of transformData with colorsBySegmentLabel set on every row
FacetBreakdown_LastColor(p, rawData, acc) ==
    IF rawData = <<>> THEN acc
    ELSE LET curr == Head(rawData)
             labels == getFacetLabels(curr.metadata.groups)
             seg == labels.segmentLabel
             bar == labels.barLabel
         IN  IF ~StackedKeepsRow(p, curr)
             THEN FacetBreakdown_LastColor(p, Tail(rawData), acc)
             ELSE LET inner == IF HasKey(acc.breakdown, seg)
                               THEN ObjSet(Get(acc.breakdown, seg), bar, FirstY(curr))
                               ELSE <<Entry(bar, FirstY(curr))>>
                  IN  FacetBreakdown_LastColor(p, Tail(rawData),
                          [breakdown |-> ObjSet(acc.breakdown, seg, inner),
                           colors |-> ObjSet(acc.colors, seg, curr.metadata.color)])

RECURSIVE FacetBreakdown(_, _, _)
\* the reduce of transformData: acc is [facetBreakdown, colorsBySegmentLabel]
FacetBreakdown(p, rawData, acc) ==
    IF rawData = <<>> THEN acc
    ELSE LET curr == Head(rawData)
             labels == getFacetLabels(curr.metadata.groups)
             seg == labels.segmentLabel
             bar == labels.barLabel
         IN  IF ~StackedKeepsRow(p, curr) THEN FacetBreakdown(p, Tail(rawData), acc)
             ELSE LET colors == IF HasKey(acc.colors, seg) THEN acc.colors
                                ELSE ObjSet(acc.colors, seg, curr.metadata.color)
                      inner == IF HasKey(acc.breakdown, seg)
                               THEN ObjSet(Get(acc.breakdown, seg), bar, FirstY(curr))
                               ELSE <<Entry(bar, FirstY(curr))>>
                  IN  FacetBreakdown(p, Tail(rawData),
                          [breakdown |-> ObjSet(acc.breakdown, seg, inner),
                           colors |-> colors])

\* one bar segment; label holds the two tooltip lines as their parts (the
\* segment label, and the value and unit that toLocaleString and typeToUnit
\* turn into text)
BarSegment(seg, bar, value, unitType, color) ==
    [label |-> <<seg, [value |-> value, unit |-> unitType]>>,
     segmentLabel |-> seg,
     x |-> bar,
     y |-> value,
     color |-> color]

\* the Map of an earlier pass used again
NewColorsBySegmentLabel_Kept == leftover.colors

\* const colorsBySegmentLabel = new Map()
NewColorsBySegmentLabel == <<>>

\* transformData(rawData) under this.props = p, with colorsBySegmentLabel
\* starting as the Map colors
StackedTransformDataFrom(colors, p, rawData) ==
    IF rawData = <<>> \/ \E i \in 1..Len(rawData) : StackedRowThrows(p, rawData[i])
    THEN TypeError
    ELSE LET acc == FacetBreakdown(p, rawData, [breakdown |-> <<>>, colors |-> colors])
             unitType == UnitOf(rawData[1].metadata.units_data, "y")
             segs == ObjectEntries(acc.breakdown)
         IN  Returned(
                 [i \in 1..Len(segs) |->
                     LET bars == ObjectEntries(segs[i].v)
                     IN  [j \in 1..Len(bars) |->
                             BarSegment(segs[i].k, bars[j].k, bars[j].v, unitType,
                                        Get(acc.colors, segs[i].k))]])

\* transformData(rawData) of the stacked bar under this.props = p
StackedTransformData(p, rawData) ==
    StackedTransformDataFrom(NewColorsBySegmentLabel, p, rawData)

\* colorsBySegmentLabel as transformData(rawData) leaves it
StackedColorsAfter(p, rawData) ==
    FacetBreakdown(p, rawData,
        [breakdown |-> <<>>, colors |-> NewColorsBySegmentLabel]).colors

(***************************************************************************)
(* Scatter plot.  A series entry is an object whose fields may be missing: *)
(* a function from the names of the fields it has.                         *)
(***************************************************************************)
\* entry[k]: undefined when the entry has no such field
Field(entry, k) == IF k \in DOMAIN entry THEN entry[k] ELSE Undefined

\* entry[k] = v
SetField(entry, k, v) == (k :> v) @@ entry

EmptyObject == [k \in {} |-> Undefined]

\* Math.min(...values) and Math.max(...values); Infinity and -Infinity when
\* there is no value
Infinity == [t |-> "inf", v |-> 1]
NegInfinity == [t |-> "inf", v |-> -1]

RECURSIVE MathMinAll(_)
MathMinAll(values) ==
    IF values = <<>> THEN Infinity
    ELSE IF Len(values) = 1 THEN ToNumber(values[1])
    ELSE MathMin2(values[1], MathMinAll(Tail(values)))

RECURSIVE MathMaxAll(_)
MathMaxAll(values) ==
    IF values = <<>> THEN NegInfinity
    ELSE IF Len(values) = 1 THEN ToNumber(values[1])
    ELSE MathMax2(values[1], MathMaxAll(Tail(values)))

\* entryHasNulls with the z value never looked at
entryHasNulls_IgnoreZ(entry, queryHasZField) ==
    \E k \in {"x", "y"} : IsNullish(Field(entry, k))

\* entryHasNulls(entry, queryHasZField)
entryHasNulls(entry, queryHasZField) ==
    LET axisValues == IF queryHasZField THEN {"x", "y", "z"} ELSE {"x", "y"}
    IN  \E k \in axisValues : IsNullish(Field(entry, k))

RECURSIVE SelectWithoutNulls(_, _)
\* series.filter((entry) => !this.entryHasNulls(entry, queryHasZField))
SelectWithoutNulls(series, queryHasZField) ==
    IF series = <<>> THEN <<>>
    ELSE IF entryHasNulls(Head(series), queryHasZField)
         THEN SelectWithoutNulls(Tail(series), queryHasZField)
         ELSE <<Head(series)>> \o SelectWithoutNulls(Tail(series), queryHasZField)

\* data?.[0]?.y
FirstYOrUndefined(row) == IF row.data = <<>> THEN Undefined ELSE Get(row.data[1], "y")

\* the displayName of the row's first function group; "undefined" without one
FunctionDisplayName(row) ==
    LET fs == Filter(row.metadata.groups, "function")
    IN  IF fs = <<>> THEN "undefined" ELSE fs[1].displayName

\* the switch on functionPosition (1-based here): the fields the row sets
AssignAxis(entry, position, row) ==
    LET dataValue == FirstYOrUndefined(row)
        unitType == UnitOf(row.metadata.units_data, "y")
        name == FunctionDisplayName(row)
    IN  CASE position = 1 ->
                 ("color" :> row.metadata.color) @@ ("x" :> dataValue)
                     @@ ("xUnitType" :> unitType) @@ ("xDisplayName" :> name)
                     @@ entry
          [] position = 2 ->
                 ("y" :> dataValue) @@ ("yUnitType" :> unitType)
                     @@ ("yDisplayName" :> name) @@ entry
          [] position = 3 ->
                 ("z" :> dataValue) @@ ("zUnitType" :> unitType)
                     @@ ("zDisplayName" :> name) @@ entry
          [] OTHER -> entry

\* the 'Other' bucket kept whatever "show other" says
ScatterKeepsRow_KeepOther(p, row) == TRUE

\* the row passes `if (!showOther && facetGroupName === 'Other') return acc`
ScatterKeepsRow(p, row) ==
    ~(~p.other.visible /\ getFacetLabel(row.metadata.groups) = OtherLabel)

RECURSIVE FacetGroupData(_, _, _, _)
\* the reduce of getAggregatesData
FacetGroupData(p, rawData, functionDisplayNames, acc) ==
    IF rawData = <<>> THEN acc
    ELSE LET row == Head(rawData)
             facetGroupName == getFacetLabel(row.metadata.groups)
             functionPosition == IndexOf(functionDisplayNames, FunctionDisplayName(row))
             entry == IF HasKey(acc, facetGroupName) THEN Get(acc, facetGroupName)
                      ELSE EmptyObject
         IN  IF ~ScatterKeepsRow(p, row)
             THEN FacetGroupData(p, Tail(rawData), functionDisplayNames, acc)
             ELSE FacetGroupData(p, Tail(rawData), functionDisplayNames,
                      ObjSet(acc, facetGroupName,
                             AssignAxis(entry, functionPosition, row)))

\* getAggregatesData(rawData, functionDisplayNames) under this.props = p
getAggregatesData(p, rawData, functionDisplayNames) ==
    LET queryHasZField == Len(functionDisplayNames) > 2
        facetGroupData == ObjectEntries(
            FacetGroupData(p, rawData, functionDisplayNames, <<>>))
        series == [i \in 1..Len(facetGroupData) |->
                      ("facetGroupName" :> facetGroupData[i].k)
                          @@ facetGroupData[i].v]
        seriesWithoutNulls == SelectWithoutNulls(series, queryHasZField)
        xValues == [i \in 1..Len(seriesWithoutNulls) |-> seriesWithoutNulls[i].x]
        yValues == [i \in 1..Len(seriesWithoutNulls) |-> seriesWithoutNulls[i].y]
    IN  [series |-> seriesWithoutNulls,
         range |-> [xMin |-> MathMinAll(xValues), xMax |-> MathMaxAll(xValues),
                    yMin |-> MathMinAll(yValues), yMax |-> MathMaxAll(yValues)]]

\* attributeNames[i] (1-based); the property name "undefined" past the end
AttributeName(attributeNames, i) ==
    IF i <= Len(attributeNames) THEN attributeNames[i] ELSE "undefined"

\* the datapoint built for one point of rawData[0].data
NonAggregatePoint(point, names, units, color) ==
    LET xAttributeName == AttributeName(names, 1)
        yAttributeName == AttributeName(names, 2)
        zAttributeName == AttributeName(names, 3)
        datapoint == [x |-> Get(point, xAttributeName),
                      y |-> Get(point, yAttributeName),
                      xDisplayName |-> xAttributeName,
                      yDisplayName |-> yAttributeName,
                      xUnitType |-> UnitOf(units, xAttributeName),
                      yUnitType |-> UnitOf(units, yAttributeName),
                      color |-> color]
    IN  IF Truthy(Get(point, zAttributeName))
        THEN ("z" :> Get(point, zAttributeName))
                 @@ ("zDisplayName" :> zAttributeName)
                 @@ ("zUnitType" :> UnitOf(units, zAttributeName)) @@ datapoint
        ELSE datapoint

RECURSIVE RunningRange(_, _, _)
\* xMin = Math.min(xMin || x, x), ... over every point of the map callback,
\* kept or not
RunningRange(series, i, range) ==
    IF i > Len(series) THEN range
    ELSE LET x == series[i].x
             y == series[i].y
         IN  RunningRange(series, i + 1,
                 [xMin |-> MathMin2(JsOr(range.xMin, x), x),
                  xMax |-> MathMax2(JsOr(range.xMax, x), x),
                  yMin |-> MathMin2(JsOr(range.yMin, y), y),
                  yMax |-> MathMax2(JsOr(range.yMax, y), y)])

\* `let xMin; let xMax; let yMin; let yMax;`
DeclaredRange ==
    [xMin |-> Undefined, xMax |-> Undefined, yMin |-> Undefined, yMax |-> Undefined]

\* getNonAggregatesData(rawData) with xMin, xMax, yMin, yMax starting as range
getNonAggregatesDataFrom(range, rawData) ==
    LET uniqueNonAggregates == uniqueNonAggregatesOf(rawData)
        queryHasZField == Len(uniqueNonAggregates) > 2
        data == rawData[1].data
        metadata == rawData[1].metadata
        series == [i \in 1..Len(data) |->
                      NonAggregatePoint(data[i], uniqueNonAggregates,
                                        metadata.units_data, metadata.color)]
    IN  [series |-> SelectWithoutNulls(series, queryHasZField),
         range |-> RunningRange(series, 1, range)]

\* getNonAggregatesData(rawData); rawData[0] is undefined on an empty result
getNonAggregatesData(rawData) == getNonAggregatesDataFrom(DeclaredRange, rawData)

\* transformData with the aggregate mode tried first
ScatterTransformData_AggregatesFirst(p, data) ==
    IF Len(uniqueAggregatesOf(data)) > 1
    THEN getAggregatesData(p, data, uniqueAggregatesOf(data))
    ELSE IF Len(uniqueNonAggregatesOf(data)) > 1
         THEN getNonAggregatesData(data)
         ELSE Null

\* transformData(data) of the scatter plot under this.props = p
ScatterTransformData(p, data) ==
    IF Len(uniqueNonAggregatesOf(data)) > 1
    THEN getNonAggregatesData(data)
    ELSE IF Len(uniqueAggregatesOf(data)) > 1
         THEN getAggregatesData(p, data, uniqueAggregatesOf(data))
         ELSE Null

\* nrqlInputIsValid content with one attribute or one aggregate
ScatterNrqlInputIsValid_AtLeastOne(data) ==
    Len(uniqueAggregatesOf(data)) >= 1 \/ Len(uniqueNonAggregatesOf(data)) >= 1

\* nrqlInputIsValid asking for both kinds at once
ScatterNrqlInputIsValid_Both(data) ==
    Len(uniqueAggregatesOf(data)) >= 2 /\ Len(uniqueNonAggregatesOf(data)) >= 2

\* nrqlInputIsValid(data) of the scatter plot
ScatterNrqlInputIsValid(data) ==
    Len(uniqueAggregatesOf(data)) >= 2 \/ Len(uniqueNonAggregatesOf(data)) >= 2

(***************************************************************************)
(* Inputs.  The bounds of the model:                                       *)
(***************************************************************************)
\* most data points in a row of a gauge query (2 or more: a TIMESERIES row)
MaxPoints == 2
\* most rows in a gauge result
MaxGaugeRows == 2

DataColors == {"#11A893", "#4ACAB0"}

\* criticalThreshold as the configuration may hold it: unset, a number, or
\* the text of the configuration field
ThresholdInputs ==
    {Undefined, NaN, Num(50), Str("50"), Str(""), Str("not-a-number"),
     Str("50abc"), Str(" 50"), Str("-5"), Str("abc50"), Str("5 0")}

GaugeProps ==
    {[thresholds |-> [criticalThreshold |-> t, highValuesAreSuccess |-> h]] :
        t \in ThresholdInputs, h \in BOOLEAN}

\* the props of a gauge whose threshold is not configured
UnsetThresholdProps ==
    {p \in GaugeProps : p.thresholds.criticalThreshold = Undefined}

\* percent = series.y * 100; NaN when the point has no y
Percents ==
    {NaN, Num(-6), Num(-5), Num(-4), Num(0), Num(5), Num(49), Num(50),
     Num(51), Num(60)}

GaugeGroupLists ==
    {<<>>,
     <<FunctionGroup("percentage")>>,
     <<FunctionGroup("count")>>,
     <<FunctionGroup("percentage"), FacetGroup("appName", "web")>>}

\* n data points, as a TIMESERIES bucket list is for n > 1
GaugePoints(n) == [i \in 1..n |-> <<Entry("y", Num(i))>>]

GaugeRows ==
    {Row(GaugePoints(n), "#11A893", g) : n \in 0..MaxPoints, g \in GaugeGroupLists}

SeqsUpTo(S, n) == UNION {[1..k -> S] : k \in 0..n}

GaugeInputs == SeqsUpTo(GaugeRows, MaxGaugeRows)

\* most rows in a stacked bar result
MaxStackedRows == 3

\* the color the platform gives the i-th series of a result
Palette == <<"#11A893", "#4ACAB0", "#0c74df", "#e6b00e", "#f5554b", "#8b5cf6">>

SeriesColor(i) == Palette[((i - 1) % Len(Palette)) + 1]

StackedProps == {[other |-> [visible |-> b]] : b \in BOOLEAN}

StackedFunctions == {"average", "max"}

\* values of the facet that names the bar, and of the last facet, which names
\* the segment ("7" is a key that Object.entries lists first)
BarValues == {"us", "Other"}
SegmentValues == {"a", "7"}

\* the facet groups of a row of a query with nf FACET attributes
StackedFacetLists(nf) ==
    CASE nf = 0 -> {<<>>}
      [] nf = 1 -> {<<FacetGroup("host", v)>> : v \in SegmentValues \cup {"Other"}}
      [] OTHER  -> {<<FacetGroup("region", b), FacetGroup("host", v)>> :
                        b \in BarValues, v \in SegmentValues}

\* the i-th row: its y is 10 + i; the first row's may also be null, and the
\* first two rows may be of either function
StackedRows(nf, i) ==
    {Row(<<<<Entry("y", y)>>>>, SeriesColor(i), <<FunctionGroup(f)>> \o fl) :
        f \in (IF i <= 2 THEN StackedFunctions ELSE {"average"}),
        fl \in StackedFacetLists(nf),
        y \in {Num(10 + i)} \cup (IF i = 1 THEN {Null} ELSE {})}

RECURSIVE StackedResults(_, _)
\* the results of k rows of a query with nf FACET attributes
StackedResults(nf, k) ==
    IF k = 0 THEN {<<>>}
    ELSE {Append(rows, r) : rows \in StackedResults(nf, k - 1),
                            r \in StackedRows(nf, k)}

\* results of one query: every row has the same number of facet groups
StackedInputs ==
    UNION {StackedResults(nf, k) : nf \in 0..2, k \in 0..MaxStackedRows}

\* most aggregate functions in the SELECT clause of a scatter query
MaxAggregates == 3
\* most data points of a non-aggregate scatter result
MaxScatterPoints == 2

ScatterProps == {[other |-> [visible |-> b]] : b \in BOOLEAN}

AggregateNames == <<"count", "average", "max", "min", "sum", "median">>

\* the facet groups of an aggregate scatter query: FACET appName with the
\* overflow bucket, or no FACET clause at all
ScatterFacetSets == {<<"web", "Other">>, <<>>}

\* a cell of the result: the row of one aggregate function for one facet.
\* Its value is null, 0 or a number of its own; "absent" is a missing row.
CellNumber(f, g) == ((3 * f + 5 * g) % 7) + 1

CellRow(nf, ng, f, g, kind, facets) ==
    Row(<<<<Entry("y", CASE kind = "null" -> Null
                         [] kind = "zero" -> Num(0)
                         [] OTHER -> Num(CellNumber(f, g)))>>>>,
        SeriesColor((g - 1) * nf + f),
        <<FunctionGroup(AggregateNames[f])>> \o
            (IF facets = <<>> THEN <<>> ELSE <<FacetGroup("appName", facets[g])>>))

RECURSIVE GridRows(_, _, _, _)
\* the rows of the cells from number c on, facet by facet and, within a
\* facet, function by function
GridRows(cells, nf, facets, c) ==
    IF c > Len(cells) THEN <<>>
    ELSE LET g == ((c - 1) \div nf) + 1
             f == ((c - 1) % nf) + 1
             ng == IF facets = <<>> THEN 1 ELSE Len(facets)
         IN  (IF cells[c] = "absent" THEN <<>>
              ELSE <<CellRow(nf, ng, f, g, cells[c], facets)>>)
                 \o GridRows(cells, nf, facets, c + 1)

\* what cell c may be: the rows of the first three functions are absent,
\* null, 0 (first facet only) or a number; a further function's rows, which
\* no axis reads, are numbers
CellKinds(nf, c) ==
    LET g == ((c - 1) \div nf) + 1
        f == ((c - 1) % nf) + 1
    IN  IF f > 3 THEN {"number"}
        ELSE {"absent", "null", "number"} \cup (IF g = 1 THEN {"zero"} ELSE {})

RECURSIVE Grids(_, _, _)
\* the grids of cells 1..c
Grids(nf, ng, c) ==
    IF c = 0 THEN {<<>>}
    ELSE {Append(cells, kind) : cells \in Grids(nf, ng, c - 1),
                                kind \in CellKinds(nf, c)}

AggregateInputs ==
    UNION {{GridRows(cells, nf, facets, 1) :
               cells \in Grids(nf, IF facets = <<>> THEN 1 ELSE Len(facets),
                               nf * (IF facets = <<>> THEN 1 ELSE Len(facets)))} :
           nf \in 1..MaxAggregates, facets \in ScatterFacetSets}

\* a non-aggregate query SELECT duration, externalDuration, databaseDuration:
\* one row, a data point per event; the i-th point's values (the first two
\* points take every kind of value, further points fewer)
XValues(i) ==
    {Num(CASE i = 1 -> 5 [] i = 2 -> 2 [] OTHER -> 5 + i)}
        \cup (IF i <= 2 THEN {Null, Num(0)} ELSE {})
YValues(i) ==
    {Null, Num(CASE i = 1 -> 3 [] i = 2 -> 1 [] OTHER -> 3 + i)}
        \cup (IF i <= 2 THEN {Undefined} ELSE {})
ZValues(i) ==
    {Null, Num(4)} \cup (IF i = 1 THEN {Undefined, Num(0)} ELSE {})

\* the object of a point; an undefined value is a key the point does not have
EventPoint(x, y, z) ==
    <<Entry("duration", x)>>
        \o (IF y = Undefined THEN <<>> ELSE <<Entry("externalDuration", y)>>)
        \o (IF z = Undefined THEN <<>> ELSE <<Entry("databaseDuration", z)>>)

EventPoints(i) ==
    {EventPoint(x, y, z) : x \in XValues(i), y \in YValues(i), z \in ZValues(i)}

EventRow(points) == Row(points, "#11A893", <<>>)

RECURSIVE EventLists(_)
\* the lists of k data points
EventLists(k) ==
    IF k = 0 THEN {<<>>}
    ELSE {Append(points, point) : points \in EventLists(k - 1),
                                  point \in EventPoints(k)}

NonAggregateInputs ==
    UNION {{<<EventRow(points)>> : points \in EventLists(k)} :
           k \in 0..MaxScatterPoints}

\* results that mix both kinds of row, and a non-aggregate result of two rows
SampleEventRows ==
    {EventRow(<<EventPoint(Num(5), Num(3), Undefined)>>),
     EventRow(<<EventPoint(Num(5), Undefined, Undefined)>>),
     EventRow(<<EventPoint(Num(0), Num(3), Num(4)),
                EventPoint(Num(2), Null, Null)>>)}

SampleAggregateRows ==
    {<<CellRow(1, 1, 1, 1, "number", <<>>)>>,
     <<CellRow(2, 1, 1, 1, "number", <<>>), CellRow(2, 1, 2, 1, "number", <<>>)>>,
     <<EventRow(<<EventPoint(Num(7), Num(9), Undefined)>>)>>}

MixedInputs == {<<r>> \o rows : r \in SampleEventRows, rows \in SampleAggregateRows}

ScatterInputs == AggregateInputs \cup NonAggregateInputs \cup MixedInputs

NoProps == [none |-> TRUE]
NoArgs == [none |-> TRUE]
NoOut == [threw |-> FALSE, value |-> "none"]
\* no pass has run: no Map of colors and no range is left; passes counts the
\* passes so far as 0, 1 or 2 for "two or more"
NoLeftover == [colors |-> <<>>, range |-> DeclaredRange, passes |-> 0]

(***************************************************************************)
(* Render passes.  The child function of NrqlQuery is called with the tick *)
(* { data, loading, error } of each poll; what it returns is recorded as   *)
(* the element shown, with the methods the pass called, in order.          *)
(***************************************************************************)
\* an array value, and the error object of the collaborator
Arr(rows) == [t |-> "array", v |-> rows]
Err(message) == [t |-> "error", v |-> message]

\* the configuration never looked at
nrqlQueryPropsAvailable_Always(nrqlQueries) == TRUE

\* nrqlQueries && nrqlQueries[0] && nrqlQueries[0].accountId &&
\* nrqlQueries[0].query
nrqlQueryPropsAvailable(nrqlQueries) ==
    /\ nrqlQueries.t = "array"
    /\ nrqlQueries.v # <<>>
    /\ nrqlQueries.v[1].accountId # 0
    /\ nrqlQueries.v[1].query # ""

NoChart == [none |-> TRUE]

\* what a pass returns: the element, its title and description props, the
\* methods called on the way, and the data the chart draws
Element(name, title, description, calls, chart) ==
    [element |-> name, title |-> title, description |-> description,
     calls |-> calls, chart |-> chart]

Rendered(name, title, description, calls, chart) ==
    Returned(Element(name, title, description, calls, chart))

\* the pass throws after the calls made
RenderThrows(calls) ==
    [threw |-> TRUE, value |-> Element("TypeError", "", "", calls, NoChart)]

SyntaxErrorTitle == "NRQL Syntax Error"
UnsupportedTitle == "Unsupported NRQL query"
UnsupportedText == "The provided NRQL query is not supported by this visualization."

\* series.y * 100 and 100 - percent
Times100(y) ==
    CASE y.t = "num" -> Num(y.v * 100)
      [] y.t = "null" -> Num(0)
      [] OTHER -> NaN

From100(percent) == IF percent.t = "num" THEN Num(100 - percent.v) ELSE NaN

\* transformData(data) of the gauge under this.props = p
GaugeTransformData(p, data) ==
    LET series == data[1].data[1]
        colorFromData == data[1].metadata.color
        label == data[1].metadata.name
        percent == Times100(Get(series, "y"))
        color == getColor(p, percent, colorFromData)
    IN  [percent |-> percent,
         label |-> label,
         series |-> <<[x |-> "progress", y |-> percent, color |-> color],
                      [x |-> "remainder", y |-> From100(percent),
                       color |-> "transparent"]>>]

\* the child function of the gauge's NrqlQuery
GaugeRenderPass(p, tick) ==
    IF ~nrqlQueryPropsAvailable(p.nrqlQueries)
    THEN Rendered("EmptyState", "", "", <<>>, NoChart)
    ELSE IF tick.loading THEN Rendered("Spinner", "", "", <<>>, NoChart)
    ELSE IF tick.error.t = "error" /\ tick.data.t = "null"
    THEN Rendered("NrqlQueryError", SyntaxErrorTitle, tick.error.v, <<>>, NoChart)
    ELSE IF tick.data.t = "null" THEN RenderThrows(<<>>)
    ELSE IF tick.data.v = <<>> THEN Rendered("NoDataState", "", "", <<>>, NoChart)
    ELSE IF ~GaugeNrqlInputIsValid(tick.data.v).value
    THEN Rendered("NrqlQueryError", UnsupportedTitle, UnsupportedText,
                  <<"nrqlInputIsValid">>, NoChart)
    ELSE Rendered("svg", "", "", <<"nrqlInputIsValid", "transformData">>,
                  GaugeTransformData(p, tick.data.v))

\* every point pushed, seen before or not
PushUnseen_Every(points, acc) ==
    acc \o [i \in 1..Len(points) |->
               [label |-> points[i].label, color |-> points[i].color]]

RECURSIVE PushUnseen(_, _)
\* the reduce that builds legendItems from the label and color of each point
PushUnseen(points, acc) ==
    IF points = <<>> THEN acc
    ELSE LET curr == Head(points)
             some == \E i \in 1..Len(acc) : acc[i].label = curr.label
         IN  PushUnseen(Tail(points),
                 IF some THEN acc
                 ELSE Append(acc, [label |-> curr.label, color |-> curr.color]))

RECURSIVE Flatten(_)
\* the points of every series, series after series
Flatten(series) ==
    IF series = <<>> THEN <<>> ELSE Head(series) \o Flatten(Tail(series))

\* legendItems of the stacked bar: transformedData.reduce over curr.forEach
StackedLegendItems(transformedData) ==
    LET points == Flatten(transformedData)
    IN  PushUnseen([i \in 1..Len(points) |->
                       [label |-> points[i].segmentLabel, color |-> points[i].color]],
                   <<>>)

\* legendItems of the scatter plot: series.reduce on facetGroupName
ScatterLegendItems(series) ==
    PushUnseen([i \in 1..Len(series) |->
                   [label |-> Field(series[i], "facetGroupName"),
                    color |-> Field(series[i], "color")]],
               <<>>)

\* the child function of the stacked bar's NrqlQuery; data[0] of a null or
\* empty data throws in validateNRQLInput
StackedRenderPass(p, tick) ==
    IF ~nrqlQueryPropsAvailable(p.nrqlQueries)
    THEN Rendered("EmptyState", "", "", <<>>, NoChart)
    ELSE IF tick.loading THEN Rendered("Spinner", "", "", <<>>, NoChart)
    ELSE IF tick.error.t = "error" THEN Rendered("ErrorState", "", "", <<>>, NoChart)
    ELSE LET isInputValid == IF tick.data.t = "null" THEN TypeError
                             ELSE validateNRQLInput(tick.data.v)
         IN  IF isInputValid.threw THEN RenderThrows(<<"validateNRQLInput">>)
             ELSE IF ~isInputValid.value
             THEN Rendered("NrqlQueryError", UnsupportedTitle, UnsupportedText,
                           <<"validateNRQLInput">>, NoChart)
             ELSE LET transformedData == StackedTransformData(p, tick.data.v)
                  IN  IF transformedData.threw
                      THEN RenderThrows(<<"validateNRQLInput", "transformData">>)
                      ELSE Rendered("VictoryChart", "", "",
                               <<"validateNRQLInput", "transformData", "getBarCount">>,
                               [series |-> transformedData.value,
                                legendItems |->
                                    StackedLegendItems(transformedData.value),
                                barCount |-> getBarCount(transformedData.value)])

\* the child function of the scatter plot's NrqlQuery; destructuring a null
\* result of transformData throws
ScatterRenderPass(p, tick) ==
    IF ~nrqlQueryPropsAvailable(p.nrqlQueries)
    THEN Rendered("EmptyState", "", "", <<>>, NoChart)
    ELSE IF tick.loading THEN Rendered("Spinner", "", "", <<>>, NoChart)
    ELSE IF tick.error.t = "error" /\ tick.data.t = "null"
    THEN Rendered("NrqlQueryError", SyntaxErrorTitle, tick.error.v, <<>>, NoChart)
    ELSE IF tick.data.t = "null" THEN RenderThrows(<<>>)
    ELSE IF tick.data.v = <<>> THEN Rendered("NoDataState", "", "", <<>>, NoChart)
    ELSE IF ~ScatterNrqlInputIsValid(tick.data.v)
    THEN Rendered("NrqlQueryError", UnsupportedTitle, UnsupportedText,
                  <<"nrqlInputIsValid">>, NoChart)
    ELSE LET transformed == ScatterTransformData(p, tick.data.v)
             calls == <<"nrqlInputIsValid", "transformData">>
         IN  IF transformed = Null THEN RenderThrows(calls)
             ELSE IF transformed.series = <<>>
             THEN Rendered("NoDataState", "", "", calls, NoChart)
             ELSE Rendered("VictoryChart", "", "", calls,
                           [series |-> transformed.series,
                            range |-> transformed.range,
                            legendItems |-> ScatterLegendItems(transformed.series)])

\* the local objects a pass leaves behind: the Map of colors of the stacked
\* bar's transformData, the range variables of getNonAggregatesData; a pass
\* that does not get as far leaves none
StackedLeftover(p, tick, result) ==
    IF result.value.element = "VictoryChart"
    THEN [NoLeftover EXCEPT !.colors = StackedColorsAfter(p, tick.data.v)]
    ELSE NoLeftover

ScatterLeftover(p, tick, result) ==
    IF /\ ~result.threw
       /\ "transformData" \in {result.value.calls[i] : i \in 1..Len(result.value.calls)}
       /\ Len(uniqueNonAggregatesOf(tick.data.v)) > 1
    THEN [NoLeftover EXCEPT !.range = getNonAggregatesData(tick.data.v).range]
    ELSE NoLeftover

\* left after one more pass
AfterPass(before, left) ==
    [left EXCEPT !.passes = IF before.passes < 2 THEN before.passes + 1 ELSE 2]

(***************************************************************************)
(* The ticks of a poll and the configuration of the query                  *)
(***************************************************************************)
\* most rows of a polled stacked bar result, most points of a polled
\* non-aggregate scatter result
MaxPollRows == 2
MaxPollPoints == 2

Tick(loading, error, data) == [loading |-> loading, error |-> error, data |-> data]

\* the first tick of a query: loading, nothing else yet
LoadingTick == Tick(TRUE, Null, Null)

\* the ticks NrqlQuery delivers: loading; an error without data; a result;
\* an error together with a result
PollTicks(results, stale) ==
    {LoadingTick, Tick(FALSE, Err("NRQL syntax error"), Null)}
        \cup {Tick(FALSE, Null, Arr(d)) : d \in results}
        \cup {Tick(FALSE, Err("timeout"), Arr(d)) : d \in stale}

\* nrqlQueries as the configuration panel leaves it: unset, empty, without a
\* query text, complete
NrqlQueriesInputs ==
    {Undefined,
     Arr(<<>>),
     Arr(<<[accountId |-> 1, query |-> ""]>>),
     Arr(<<[accountId |-> 1, query |-> "SELECT count(*) FROM Transaction"]>>)}

WithQueries(P) ==
    {[nrqlQueries |-> q] @@ p : p \in P, q \in NrqlQueriesInputs}

GaugeRenderProps ==
    WithQueries({p \in GaugeProps :
                    p.thresholds.criticalThreshold \in {Undefined, Num(50)}})

GaugePollResults == {d \in GaugeInputs : Len(d) <= 1}

\* the i-th row of a polled stacked bar result: one function, a y of its own
PollStackedRows(nf, i) ==
    {Row(<<<<Entry("y", Num(10 + i))>>>>, SeriesColor(i),
         <<FunctionGroup("average")>> \o fl) : fl \in StackedFacetLists(nf)}

RECURSIVE PollStackedLists(_, _)
PollStackedLists(nf, k) ==
    IF k = 0 THEN {<<>>}
    ELSE {Append(rows, r) : rows \in PollStackedLists(nf, k - 1),
                            r \in PollStackedRows(nf, k)}

StackedPollResults ==
    UNION {PollStackedLists(nf, k) : nf \in 0..2, k \in 0..MaxPollRows}

\* the i-th event of a polled non-aggregate result
PollEventPoints(i) ==
    {EventPoint(x, y, Undefined) : x \in {Num(0), Num(i)}, y \in {Null, Num(3 + i)}}

RECURSIVE PollEventLists(_)
PollEventLists(k) ==
    IF k = 0 THEN {<<>>}
    ELSE {Append(points, point) : points \in PollEventLists(k - 1),
                                  point \in PollEventPoints(k)}

\* polled scatter results: events, two aggregates with or without a FACET,
\* and the mixed results
ScatterPollResults ==
    UNION {{<<EventRow(points)>> : points \in PollEventLists(k)} :
              k \in 0..MaxPollPoints}
        \cup UNION {{GridRows(cells, nf, facets, 1) :
                        cells \in Grids(nf, IF facets = <<>> THEN 1 ELSE Len(facets),
                                        nf * (IF facets = <<>> THEN 1 ELSE Len(facets)))} :
                    nf \in 1..2, facets \in ScatterFacetSets}
        \cup MixedInputs

\* the results that may come with an error: none, or a single row
Stale(results) == {d \in results : Len(d) <= 1}

(***************************************************************************)
(* The state machine                                                       *)
(***************************************************************************)
Init ==
    /\ widget \in {"gauge", "stacked", "scatter"}
    /\ op = "idle"
    /\ props = NoProps
    /\ args = NoArgs
    /\ out = NoOut
    /\ leftover = NoLeftover

\* this.nrqlInputIsValid(data) of the gauge
GaugeValidate ==
    /\ widget = "gauge" /\ op = "idle"
    /\ \E p \in UnsetThresholdProps, data \in GaugeInputs :
          /\ props' = p
          /\ args' = [data |-> data]
          /\ out' = GaugeNrqlInputIsValid(data)
    /\ op' = "nrqlInputIsValid"
    /\ UNCHANGED <<widget, leftover>>

\* this.getColor(value, colorFromData)
GaugeGetColor ==
    /\ widget = "gauge" /\ op = "idle"
    /\ \E p \in GaugeProps, value \in Percents, c \in DataColors :
          /\ props' = p
          /\ args' = [value |-> value, colorFromData |-> c]
          /\ out' = Returned(getColor(p, value, c))
    /\ op' = "getColor"
    /\ UNCHANGED <<widget, leftover>>

\* validateNRQLInput(data)
StackedValidate ==
    /\ widget = "stacked" /\ op = "idle"
    /\ \E p \in {q \in StackedProps : q.other.visible}, data \in StackedInputs :
          /\ props' = p
          /\ args' = [data |-> data]
          /\ out' = validateNRQLInput(data)
    /\ op' = "validateNRQLInput"
    /\ UNCHANGED <<widget, leftover>>

\* this.transformData(rawData) of the stacked bar
StackedTransform ==
    /\ widget = "stacked" /\ op = "idle"
    /\ \E p \in StackedProps, data \in StackedInputs :
          /\ props' = p
          /\ args' = [data |-> data]
          /\ out' = StackedTransformData(p, data)
    /\ op' = "transformData"
    /\ UNCHANGED <<widget, leftover>>

\* getBarCount(transformedData), on what transformData made of rawData
StackedBarCount ==
    /\ widget = "stacked" /\ op = "idle"
    /\ \E p \in StackedProps, data \in StackedInputs :
          /\ ~StackedTransformData(p, data).threw
          /\ props' = p
          /\ args' = [rawData |-> data,
                      data |-> StackedTransformData(p, data).value]
          /\ out' = Returned(getBarCount(StackedTransformData(p, data).value))
    /\ op' = "getBarCount"
    /\ UNCHANGED <<widget, leftover>>

\* this.nrqlInputIsValid(data) of the scatter plot
ScatterValidate ==
    /\ widget = "scatter" /\ op = "idle"
    /\ \E p \in {q \in ScatterProps : q.other.visible}, data \in ScatterInputs :
          /\ props' = p
          /\ args' = [data |-> data]
          /\ out' = Returned(ScatterNrqlInputIsValid(data))
    /\ op' = "nrqlInputIsValid"
    /\ UNCHANGED <<widget, leftover>>

\* this.transformData(data) of the scatter plot
ScatterTransform ==
    /\ widget = "scatter" /\ op = "idle"
    /\ \E p \in ScatterProps, data \in ScatterInputs :
          /\ props' = p
          /\ args' = [data |-> data]
          /\ out' = Returned(ScatterTransformData(p, data))
    /\ op' = "transformData"
    /\ UNCHANGED <<widget, leftover>>

\* the call has returned and its value is consumed; nothing is kept
Return ==
    /\ op # "idle"
    /\ op' = "idle"
    /\ props' = NoProps
    /\ args' = NoArgs
    /\ out' = NoOut
    /\ UNCHANGED <<widget, leftover>>

\* a tick of the gauge's query and the pass it causes
GaugeRender ==
    /\ widget = "gauge" /\ op = "idle"
    /\ \E p \in GaugeRenderProps,
          tick \in PollTicks(GaugePollResults, Stale(GaugePollResults)) :
          /\ nrqlQueryPropsAvailable(p.nrqlQueries) \/ tick.loading
          /\ props' = p
          /\ args' = tick
          /\ out' = GaugeRenderPass(p, tick)
    /\ op' = "render"
    /\ leftover' = AfterPass(leftover, NoLeftover)
    /\ UNCHANGED widget

\* a tick of the stacked bar's query and the pass it causes
StackedRender ==
    /\ widget = "stacked" /\ op = "idle"
    /\ \E p \in WithQueries(StackedProps),
          tick \in PollTicks(StackedPollResults, Stale(StackedPollResults)) :
          /\ nrqlQueryPropsAvailable(p.nrqlQueries) \/ tick.loading
          /\ props' = p
          /\ args' = tick
          /\ out' = StackedRenderPass(p, tick)
          /\ leftover' = AfterPass(leftover,
                          StackedLeftover(p, tick, StackedRenderPass(p, tick)))
    /\ op' = "render"
    /\ UNCHANGED widget

\* a tick of the scatter plot's query and the pass it causes
ScatterRender ==
    /\ widget = "scatter" /\ op = "idle"
    /\ \E p \in WithQueries(ScatterProps),
          tick \in PollTicks(ScatterPollResults, Stale(ScatterPollResults)) :
          /\ nrqlQueryPropsAvailable(p.nrqlQueries) \/ tick.loading
          /\ props' = p
          /\ args' = tick
          /\ out' = ScatterRenderPass(p, tick)
          /\ leftover' = AfterPass(leftover,
                          ScatterLeftover(p, tick, ScatterRenderPass(p, tick)))
    /\ op' = "render"
    /\ UNCHANGED widget

Next ==
    \/ GaugeValidate
    \/ GaugeGetColor
    \/ StackedValidate
    \/ StackedTransform
    \/ StackedBarCount
    \/ ScatterValidate
    \/ ScatterTransform
    \/ Return

Spec == Init /\ [][Next]_vars

\* the polls of a mounted visualization: tick after tick, pass after pass
PollNext ==
    \/ GaugeRender
    \/ StackedRender
    \/ ScatterRender
    \/ Return

PollSpec == Init /\ [][PollNext]_vars

(***************************************************************************)
(* Shapes of a row set, stated over the rows as sets (not through the      *)
(* classifier's accumulators)                                              *)
(***************************************************************************)
GroupsOfType(data, ty) ==
    UNION {{g \in {data[i].metadata.groups[j] :
                      j \in 1..Len(data[i].metadata.groups)} : g.type = ty} :
           i \in 1..Len(data)}

DistinctAggregates(data) == {g.displayName : g \in GroupsOfType(data, "function")}

DistinctFacets(data) == {g.displayName : g \in GroupsOfType(data, "facet")}

(***************************************************************************)
(* C1: the gauge validator accepts a non-empty row set if and only if it   *)
(* has exactly 1 distinct aggregate, no facet and exactly 1 data point in  *)
(* every row.  (The code looks at the data points of the first row only.)  *)
(***************************************************************************)
C1_GaugeAcceptsExactShape ==
    (widget = "gauge" /\ op = "nrqlInputIsValid" /\ args.data # <<>>)
        => (out = Returned(TRUE) <=>
                /\ Cardinality(DistinctAggregates(args.data)) = 1
                /\ DistinctFacets(args.data) = {}
                /\ \A i \in 1..Len(args.data) : Len(args.data[i].data) = 1)

(***************************************************************************)
(* C2: getColor.  A threshold is a valid number when it is a number other  *)
(* than NaN or a text that is, blanks around it aside, one numeral.        *)
(***************************************************************************)
RECURSIVE DecValue(_, _, _)
\* the decimal value of the digits s[j..e]
DecValue(s, j, e) ==
    IF e < j THEN 0 ELSE 10 * DecValue(s, j, e - 1) + DigitVal(Char(s, e))

\* s[a..b] is a numeral: an optional "-" and then digits only, at least one
IsNumeralAt(s, a, b) ==
    LET j == IF Char(s, a) = "-" THEN a + 1 ELSE a
    IN  j <= b /\ \A i \in j..b : IsDigit(Char(s, i))

NumeralValue(s, a, b) ==
    IF Char(s, a) = "-" THEN 0 - DecValue(s, a + 1, b) ELSE DecValue(s, a, b)

AllBlank(s, a, b) == \A i \in a..b : Char(s, i) = " "

\* the whole text is one numeral
WholeNumerals(s) ==
    {<<a, b>> \in (1..Len(s)) \X (1..Len(s)) :
        a <= b /\ AllBlank(s, 1, a - 1) /\ AllBlank(s, b + 1, Len(s))
               /\ IsNumeralAt(s, a, b)}

\* the text starts, after blanks, with a numeral that ends where the digits end
LeadingNumerals(s) ==
    {<<a, b>> \in (1..Len(s)) \X (1..Len(s)) :
        a <= b /\ AllBlank(s, 1, a - 1) /\ IsNumeralAt(s, a, b)
               /\ (b = Len(s) \/ ~IsDigit(Char(s, b + 1)))}

ThresholdColor(value, n, high, colorOut) ==
    IF high
    THEN colorOut = Returned(IF value.t = "num" /\ value.v > n THEN Green ELSE Red)
    ELSE colorOut = Returned(IF value.t = "num" /\ value.v < n THEN Green ELSE Red)

\* C2 as claimed: a threshold that is not a valid number leaves the data
\* color, a valid one is compared strictly
C2_GetColorValidNumber ==
    (widget = "gauge" /\ op = "getColor") =>
        LET t == props.thresholds.criticalThreshold
            high == props.thresholds.highValuesAreSuccess
        IN  CASE t.t = "num" -> ThresholdColor(args.value, t.v, high, out)
              [] t.t = "str" /\ WholeNumerals(t.v) # {} ->
                    \A ab \in WholeNumerals(t.v) :
                        ThresholdColor(args.value,
                            NumeralValue(t.v, ab[1], ab[2]), high, out)
              [] OTHER -> out = Returned(args.colorFromData)

\* C2 as amended: parseFloat reads the leading numeral of a text and ignores
\* what follows it, so the data color is kept only when the threshold is
\* unset, NaN or a text that does not start (after blanks) with a numeral;
\* otherwise the comparison with that leading number is strict
C2_GetColorLeadingNumber ==
    (widget = "gauge" /\ op = "getColor") =>
        LET t == props.thresholds.criticalThreshold
            high == props.thresholds.highValuesAreSuccess
        IN  CASE t.t = "num" -> ThresholdColor(args.value, t.v, high, out)
              [] t.t = "str" /\ LeadingNumerals(t.v) # {} ->
                    \A ab \in LeadingNumerals(t.v) :
                        ThresholdColor(args.value,
                            NumeralValue(t.v, ab[1], ab[2]), high, out)
              [] OTHER -> out = Returned(args.colorFromData)

\* percent = threshold gives the critical color, here against the leading
\* number of a text with a trailing rest
C2_Witness ==
    /\ widget = "gauge" /\ op = "getColor"
    /\ props.thresholds.criticalThreshold = Str("50abc")
    /\ props.thresholds.highValuesAreSuccess
    /\ args.value = Num(50)
    /\ out = Returned(Red)

(***************************************************************************)
(* C3: the stacked bar validator accepts a non-empty row set if and only   *)
(* if the set as a whole has exactly 1 distinct aggregate function and at  *)
(* least 1 facet.  (The code counts the groups of the first row only.)     *)
(***************************************************************************)
C3_StackedAcceptsOneAggregate ==
    (widget = "stacked" /\ op = "validateNRQLInput" /\ args.data # <<>>)
        => (out = Returned(TRUE) <=>
                /\ Cardinality(DistinctAggregates(args.data)) = 1
                /\ DistinctFacets(args.data) # {})

(***************************************************************************)
(* Labels of a row as the claims state them: the segment label is the      *)
(* value of the last facet group, the bar label the comma-joined values of *)
(* the facet groups before it.                                             *)
(***************************************************************************)
FacetValues(row) ==
    LET gs == row.metadata.groups
        idx == {j \in 1..Len(gs) : gs[j].type = "facet"}
        \* the position in gs of the n-th facet group
        nth[n \in 1..Cardinality(idx)] ==
            CHOOSE j \in idx : Cardinality({k \in idx : k <= j}) = n
    IN  [n \in 1..Cardinality(idx) |-> gs[nth[n]].value]

RECURSIVE CommaJoin(_)
CommaJoin(vals) ==
    IF vals = <<>> THEN ""
    ELSE IF Len(vals) = 1 THEN vals[1]
    ELSE CommaJoin(SubSeq(vals, 1, Len(vals) - 1)) \o ", " \o vals[Len(vals)]

SegmentLabelOf(row) == FacetValues(row)[Len(FacetValues(row))]

BarLabelOf(row) == CommaJoin(SubSeq(FacetValues(row), 1, Len(FacetValues(row)) - 1))

\* the rows transformData retains under the "other" configuration
RetainedRows(visible, data) ==
    {i \in 1..Len(data) : visible \/ BarLabelOf(data[i]) # "Other"}

\* the rows that carry the two labels
RowsWith(visible, data, seg, bar) ==
    {i \in RetainedRows(visible, data) :
        SegmentLabelOf(data[i]) = seg /\ BarLabelOf(data[i]) = bar}

Max(S) == CHOOSE x \in S : \A y \in S : y <= x

(***************************************************************************)
(* C4: transformData of the stacked bar returns one series per distinct    *)
(* segmentLabel of the retained rows; each series holds exactly one point  *)
(* per barLabel that occurs with that segmentLabel, with x = barLabel and  *)
(* y = the first data point's y of the row that carries the two labels     *)
(* (of the last such row, should several rows carry them); there is no     *)
(* point for a pair of labels that no retained row carries.                *)
(***************************************************************************)
C4_StackedSeriesPerSegment ==
    (widget = "stacked" /\ op = "transformData" /\ ~out.threw) =>
        LET data == args.data
            visible == props.other.visible
            series == out.value
            kept == RetainedRows(visible, data)
        IN  /\ \A i \in 1..Len(series) :
                  /\ series[i] # <<>>
                  /\ \A j \in 1..Len(series[i]) :
                        series[i][j].segmentLabel = series[i][1].segmentLabel
               \* one series per distinct segment label
            /\ {series[i][1].segmentLabel : i \in 1..Len(series)}
                  = {SegmentLabelOf(data[r]) : r \in kept}
            /\ \A i, k \in 1..Len(series) :
                  series[i][1].segmentLabel = series[k][1].segmentLabel => i = k
               \* one point per bar label of the segment
            /\ \A i \in 1..Len(series) :
                  /\ {series[i][j].x : j \in 1..Len(series[i])}
                        = {BarLabelOf(data[r]) :
                              r \in {q \in kept : SegmentLabelOf(data[q])
                                                     = series[i][1].segmentLabel}}
                  /\ \A j, k \in 1..Len(series[i]) :
                        series[i][j].x = series[i][k].x => j = k
                  /\ \A j \in 1..Len(series[i]) :
                        LET rows == RowsWith(visible, data,
                                             series[i][j].segmentLabel,
                                             series[i][j].x)
                        IN  /\ rows # {}
                            /\ series[i][j].y = Get(data[Max(rows)].data[1], "y")

\* two segments, one of them with two bars, each from its own row
C4_Witness ==
    /\ widget = "stacked" /\ op = "transformData" /\ ~out.threw
    /\ Len(args.data) = 3
    /\ Len(out.value) = 2
    /\ \E i \in 1..2 : Len(out.value[i]) = 2
    /\ \E i \in 1..2 : \E j \in 1..Len(out.value[i]) : out.value[i][j].y = Num(13)

(***************************************************************************)
(* C5: with "other" visibility false no row whose barLabel is "Other"      *)
(* contributes: no point has x = "Other" and getBarCount does not count    *)
(* it; with visibility true such rows are kept and counted as a bar.       *)
(***************************************************************************)
C5_OtherBarDropped ==
    /\ (widget = "stacked" /\ op = "transformData" /\ ~out.threw) =>
          LET series == out.value
              others == {r \in 1..Len(args.data) : BarLabelOf(args.data[r]) = "Other"}
              hasOther == \E i \in 1..Len(series) : \E j \in 1..Len(series[i]) :
                              series[i][j].x = "Other"
          IN  IF props.other.visible THEN (others # {} => hasOther) ELSE ~hasOther
    /\ (widget = "stacked" /\ op = "getBarCount") =>
          out = Returned(Cardinality(
                    {BarLabelOf(args.rawData[r]) :
                        r \in RetainedRows(props.other.visible, args.rawData)}))

\* an "Other" bar and another bar in the rows, visibility off: one bar counted
C5_Witness ==
    /\ widget = "stacked" /\ op = "getBarCount"
    /\ ~props.other.visible
    /\ \E r \in 1..Len(args.rawData) : BarLabelOf(args.rawData[r]) = "Other"
    /\ \E r \in 1..Len(args.rawData) : BarLabelOf(args.rawData[r]) = "us"
    /\ out = Returned(1)

(***************************************************************************)
(* Scatter plot: the shapes the claims speak of                            *)
(***************************************************************************)
\* the attribute keys of the data points of the rows without an aggregate
DistinctNonAggregates(data) ==
    UNION {UNION {{data[i].data[j][e].k : e \in 1..Len(data[i].data[j])} :
                     j \in 1..Len(data[i].data)} :
              i \in {r \in 1..Len(data) :
                        \A g \in 1..Len(data[r].metadata.groups) :
                            data[r].metadata.groups[g].type # "function"}}

NonAggregateMode(data) == Cardinality(DistinctNonAggregates(data)) > 1

AggregateMode(data) ==
    /\ Cardinality(DistinctNonAggregates(data)) <= 1
    /\ Cardinality(DistinctAggregates(data)) > 1

(***************************************************************************)
(* C6: the scatter validator accepts a row set if and only if it has at    *)
(* least 2 distinct non-aggregate attributes or at least 2 distinct        *)
(* aggregate functions.                                                    *)
(***************************************************************************)
C6_ScatterAcceptsTwoOfAKind ==
    (widget = "scatter" /\ op = "nrqlInputIsValid") =>
        out = Returned(\/ Cardinality(DistinctNonAggregates(args.data)) >= 2
                       \/ Cardinality(DistinctAggregates(args.data)) >= 2)

\* accepted for its 2 attributes alone: no aggregate function at all
C6_Witness ==
    /\ widget = "scatter" /\ op = "nrqlInputIsValid"
    /\ out = Returned(TRUE)
    /\ DistinctAggregates(args.data) = {}
    /\ Cardinality(DistinctNonAggregates(args.data)) = 2

(***************************************************************************)
(* C7: scatter transformData picks its mode by the two counts alone: the   *)
(* non-aggregate mode whenever there are 2 or more non-aggregate           *)
(* attributes (also with 2 or more aggregates), the aggregate mode only    *)
(* with at most 1 attribute and 2 or more aggregates, and null otherwise.  *)
(* A non-aggregate result is known by its points, which carry no           *)
(* facetGroupName, and by a range that is never +/-Infinity; an aggregate  *)
(* result by points that carry a facetGroupName and, with no point, by the *)
(* range of Math.min() and Math.max().                                     *)
(***************************************************************************)
IsNonAggregateResult(res) ==
    /\ \A i \in 1..Len(res.series) : "facetGroupName" \notin DOMAIN res.series[i]
    /\ res.range.xMin.t # "inf"

IsAggregateResult(res) ==
    /\ \A i \in 1..Len(res.series) : "facetGroupName" \in DOMAIN res.series[i]
    /\ res.series = <<>> => res.range.xMin = Infinity

C7_ScatterModeByCounts ==
    (widget = "scatter" /\ op = "transformData") =>
        IF NonAggregateMode(args.data)
        THEN out.value # Null /\ IsNonAggregateResult(out.value)
        ELSE IF AggregateMode(args.data)
             THEN out.value # Null /\ IsAggregateResult(out.value)
             ELSE out.value = Null

\* both counts exceed 1 and the non-aggregate mode wins
C7_Witness ==
    /\ widget = "scatter" /\ op = "transformData"
    /\ Cardinality(DistinctNonAggregates(args.data)) > 1
    /\ Cardinality(DistinctAggregates(args.data)) > 1
    /\ out.value # Null
    /\ Len(out.value.series) = 1
    /\ "facetGroupName" \notin DOMAIN out.value.series[1]

(***************************************************************************)
(* Scatter plot, aggregate mode: the facet groups and their values as the  *)
(* claims state them.  Every row of the results here carries at most one   *)
(* aggregate function ("an entry per combo of aggregate function and       *)
(* facet").                                                                *)
(***************************************************************************)
Min(S) == CHOOSE x \in S : \A y \in S : x <= y

\* the aggregate function of a row, "" for a row without one
FunctionOf(row) ==
    LET fs == {g \in 1..Len(row.metadata.groups) :
                  row.metadata.groups[g].type = "function"}
    IN  IF fs = {} THEN "" ELSE row.metadata.groups[Min(fs)].displayName

FirstRowOf(data, name) == Min({i \in 1..Len(data) : FunctionOf(data[i]) = name})

\* the n-th declared aggregate: the n-th to appear in the rows
DeclaredAggregate(data, n) ==
    CHOOSE name \in DistinctAggregates(data) :
        Cardinality({other \in DistinctAggregates(data) :
                        FirstRowOf(data, other) < FirstRowOf(data, name)}) = n - 1

FacetGroupOf(row) == CommaJoin(FacetValues(row))

\* the rows getAggregatesData retains under the "show other" configuration
ScatterRetainedRows(visible, data) ==
    {i \in 1..Len(data) : visible \/ FacetGroupOf(data[i]) # "Other"}

\* the value a facet group has for an aggregate: the first data point's y of
\* its (last) retained row for that aggregate, undefined without such a row
GroupValue(visible, data, group, name) ==
    LET rows == {i \in ScatterRetainedRows(visible, data) :
                    FacetGroupOf(data[i]) = group /\ FunctionOf(data[i]) = name}
    IN  IF rows = {} \/ data[Max(rows)].data = <<>> THEN Undefined
        ELSE Get(data[Max(rows)].data[1], "y")

\* the aggregates a point needs a value for: the 1st, the 2nd and, once 3
\* are configured, the 3rd
RequiredAxes(data) ==
    IF Cardinality(DistinctAggregates(data)) > 2 THEN 1..3 ELSE 1..2

CompleteGroups(visible, data) ==
    {group \in {FacetGroupOf(data[i]) : i \in ScatterRetainedRows(visible, data)} :
        \A n \in RequiredAxes(data) :
            ~IsNullish(GroupValue(visible, data, group, DeclaredAggregate(data, n)))}

SeriesX(series) == {series[i].x.v : i \in 1..Len(series)}
SeriesY(series) == {series[i].y.v : i \in 1..Len(series)}

\* the range is the minimum and maximum of the x and y of the points
RangeOfSeries(res) ==
    /\ res.range.xMin = Num(Min(SeriesX(res.series)))
    /\ res.range.xMax = Num(Max(SeriesX(res.series)))
    /\ res.range.yMin = Num(Min(SeriesY(res.series)))
    /\ res.range.yMax = Num(Max(SeriesY(res.series)))

(***************************************************************************)
(* C8: the aggregate mode yields exactly one point per facet group that    *)
(* has a non-null value for every required aggregate, with x, y and z the  *)
(* values of the 1st, 2nd and 3rd declared aggregate; a facet group        *)
(* missing a required value and the rows of the "Other" bucket with "show  *)
(* other" off are neither in the series nor in the range.                  *)
(***************************************************************************)
C8_AggregatePointPerCompleteGroup ==
    (widget = "scatter" /\ op = "transformData" /\ AggregateMode(args.data)) =>
        LET data == args.data
            visible == props.other.visible
            series == out.value.series
            Value(group, n) ==
                GroupValue(visible, data, group, DeclaredAggregate(data, n))
        IN  /\ {series[i].facetGroupName : i \in 1..Len(series)}
                  = CompleteGroups(visible, data)
            /\ Len(series) = Cardinality(CompleteGroups(visible, data))
            /\ \A i \in 1..Len(series) :
                  /\ series[i].x = Value(series[i].facetGroupName, 1)
                  /\ series[i].y = Value(series[i].facetGroupName, 2)
                  /\ IF 3 \in RequiredAxes(data)
                     THEN series[i].z = Value(series[i].facetGroupName, 3)
                     ELSE "z" \notin DOMAIN series[i]
            /\ (~visible => \A i \in 1..Len(series) :
                                series[i].facetGroupName # "Other")
            /\ (series # <<>> => RangeOfSeries(out.value))

\* 3 aggregates, "show other" off: the facet "web" is complete and makes the
\* one point, the rows of "Other" are in the result and make none
C8_Witness ==
    /\ widget = "scatter" /\ op = "transformData" /\ AggregateMode(args.data)
    /\ ~props.other.visible
    /\ Cardinality(DistinctAggregates(args.data)) = 3
    /\ Cardinality({i \in 1..Len(args.data) :
                       FacetGroupOf(args.data[i]) = "Other"}) = 3
    /\ \A i \in 1..Len(args.data) : ~IsNullish(Get(args.data[i].data[1], "y"))
    /\ Len(out.value.series) = 1
    /\ out.value.series[1].facetGroupName = "web"
    /\ out.value.series[1].z = Num(CellNumber(3, 1))

(***************************************************************************)
(* Scatter plot, non-aggregate mode.  The 1st, 2nd and 3rd declared        *)
(* attribute are the classifier's first three attribute names.             *)
(***************************************************************************)
DeclaredAttribute(data, n) ==
    LET names == uniqueNonAggregatesOf(data)
    IN  IF n <= Len(names) THEN names[n] ELSE "undefined"

\* the value of the n-th declared attribute in a data point
AttributeValue(data, point, n) ==
    LET key == DeclaredAttribute(data, n)
        at == {e \in 1..Len(point) : point[e].k = key}
    IN  IF at = {} THEN Undefined ELSE point[Min(at)].v

\* every data point of the result, row after row
RECURSIVE AllPoints(_)
AllPoints(data) ==
    IF data = <<>> THEN <<>> ELSE Head(data).data \o AllPoints(Tail(data))

\* the positions in S in ascending order
RECURSIVE Ascending(_)
Ascending(S) ==
    IF S = {} THEN <<>> ELSE <<Min(S)>> \o Ascending(S \ {Min(S)})

\* the positions in points, in order, of the points that satisfy Keep
KeptPositions(points, Keep(_)) ==
    Ascending({i \in 1..Len(points) : Keep(points[i])})

\* series holds, in order, one point for each of the points at the positions
\* kept, with their x and y and, where WithZ says so, their z
SeriesIsPoints(data, series, points, kept, WithZ(_)) ==
    /\ Len(series) = Len(kept)
    /\ \A k \in 1..Len(kept) :
          LET point == points[kept[k]]
          IN  /\ series[k].x = AttributeValue(data, point, 1)
              /\ series[k].y = AttributeValue(data, point, 2)
              /\ IF WithZ(point)
                 THEN /\ "z" \in DOMAIN series[k]
                      /\ series[k].z = AttributeValue(data, point, 3)
                 ELSE "z" \notin DOMAIN series[k]

(***************************************************************************)
(* C9 as claimed: the non-aggregate mode yields one point per input data   *)
(* point and drops a point only when its x or y is null or undefined; a    *)
(* point with valid x and y whose 3rd attribute is null or missing stays,  *)
(* without a z, also when 3 attributes are declared.                       *)
(***************************************************************************)
C9_NonAggregateDropsOnlyXY ==
    (widget = "scatter" /\ op = "transformData" /\ NonAggregateMode(args.data)) =>
        LET data == args.data
            points == AllPoints(data)
            Keep(point) == /\ ~IsNullish(AttributeValue(data, point, 1))
                           /\ ~IsNullish(AttributeValue(data, point, 2))
            WithZ(point) == ~IsNullish(AttributeValue(data, point, 3))
        IN  SeriesIsPoints(data, out.value.series, points,
                           KeptPositions(points, Keep), WithZ)

(***************************************************************************)
(* C9 as amended: the non-aggregate mode yields one point per data point   *)
(* of the first row and drops a point when its x or y is null or           *)
(* undefined and, once the result has 3 or more distinct attributes, also  *)
(* when its 3rd attribute is null, missing or 0; only with 2 attributes is *)
(* a point with valid x and y kept without a z.                            *)
(***************************************************************************)
C9_NonAggregateDropsMissingZ ==
    (widget = "scatter" /\ op = "transformData" /\ NonAggregateMode(args.data)) =>
        LET data == args.data
            points == data[1].data
            hasZ == Cardinality(DistinctNonAggregates(data)) > 2
            NonZero(v) == ~IsNullish(v) /\ v # Num(0)
            Keep(point) == /\ ~IsNullish(AttributeValue(data, point, 1))
                           /\ ~IsNullish(AttributeValue(data, point, 2))
                           /\ (hasZ => NonZero(AttributeValue(data, point, 3)))
            WithZ(point) == hasZ
        IN  SeriesIsPoints(data, out.value.series, points,
                           KeptPositions(points, Keep), WithZ)

\* 3 attributes; the first point has x, y and z and stays, the second has
\* valid x and y and a null 3rd attribute and is dropped
C9_Witness ==
    /\ widget = "scatter" /\ op = "transformData" /\ NonAggregateMode(args.data)
    /\ Len(args.data) = 1 /\ Len(args.data[1].data) = 2
    /\ Cardinality(DistinctNonAggregates(args.data)) = 3
    /\ ~IsNullish(AttributeValue(args.data, args.data[1].data[2], 1))
    /\ ~IsNullish(AttributeValue(args.data, args.data[1].data[2], 2))
    /\ AttributeValue(args.data, args.data[1].data[2], 3) = Null
    /\ Len(out.value.series) = 1
    /\ out.value.series[1].z = Num(4)

(***************************************************************************)
(* C10: in both scatter modes, whenever a point is retained, the range is  *)
(* the minimum and maximum of the x and of the y of the retained points;   *)
(* dropped points and coordinates of 0 do not distort it.  (The            *)
(* non-aggregate mode folds `Math.min(xMin || x, x)` over every point.)    *)
(***************************************************************************)
C10_RangeOfRetainedPoints ==
    (/\ widget = "scatter" /\ op = "transformData"
     /\ out.value # Null /\ out.value.series # <<>>) => RangeOfSeries(out.value)

(***************************************************************************)
(* C11: no point handed to the renderer has a null or undefined value on   *)
(* an axis it declares: the scatter series has no point with a null or     *)
(* undefined x or y, and the stacked bar series has no point with a null   *)
(* or undefined y.  (The stacked bar's reduce stores data[0].y as it is.)  *)
(***************************************************************************)
C11_NoNullAxisValue ==
    /\ (widget = "scatter" /\ op = "transformData" /\ out.value # Null) =>
          \A i \in 1..Len(out.value.series) :
              /\ ~IsNullish(Field(out.value.series[i], "x"))
              /\ ~IsNullish(Field(out.value.series[i], "y"))
    /\ (widget = "stacked" /\ op = "transformData" /\ ~out.threw) =>
          \A i \in 1..Len(out.value) : \A j \in 1..Len(out.value[i]) :
              ~IsNullish(out.value[i][j].y)

(***************************************************************************)
(* Render passes: what a pass was given and what it did                    *)
(***************************************************************************)
\* the query is configured: an account and a query text
Configured ==
    /\ props.nrqlQueries.t = "array"
    /\ props.nrqlQueries.v # <<>>
    /\ props.nrqlQueries.v[1].accountId # 0
    /\ props.nrqlQueries.v[1].query # ""

Called(name) == \E i \in 1..Len(out.value.calls) : out.value.calls[i] = name

\* the elements that stand for a failure class
FailureElements == {"EmptyState", "NrqlQueryError", "ErrorState", "NoDataState"}

\* the widget's Shape Validator accepts the rows of the tick
ValidatorAccepts ==
    /\ args.data.t = "array"
    /\ args.data.v # <<>>
    /\ CASE widget = "gauge" -> GaugeNrqlInputIsValid(args.data.v).value
         [] widget = "stacked" -> validateNRQLInput(args.data.v).value
         [] OTHER -> ScatterNrqlInputIsValid(args.data.v)

(***************************************************************************)
(* C12 as claimed: in every pass each failure class is detected before     *)
(* transformData is invoked: a pass that ends in a failure element has not *)
(* called transformData, and transformData is called only on rows the      *)
(* Shape Validator accepts.                                                *)
(***************************************************************************)
C12_FailuresBeforeTransform ==
    (op = "render") =>
        /\ (~out.threw /\ out.value.element \in FailureElements)
              => ~Called("transformData")
        /\ Called("transformData") => ValidatorAccepts

(***************************************************************************)
(* C12 as amended: transformData is called only when the query is          *)
(* configured, the tick is not loading, carries no error without data,     *)
(* has rows, and the Shape Validator accepts them; a pass that ends in a   *)
(* failure element has not called transformData, except the scatter        *)
(* plot's no-data state for a series that is empty after the null filter,  *)
(* which is detected on the result of transformData; and no chart is       *)
(* shown without transformData.                                            *)
(***************************************************************************)
C12_FailuresBeforeTransformButEmptySeries ==
    (op = "render") =>
        /\ Called("transformData") =>
              /\ Configured
              /\ ~args.loading
              /\ ~(args.error.t = "error" /\ args.data.t = "null")
              /\ ValidatorAccepts
        /\ (~out.threw /\ out.value.element \in FailureElements
                /\ Called("transformData")) =>
              /\ widget = "scatter"
              /\ out.value.element = "NoDataState"
              /\ ScatterTransformData(props, args.data.v).series = <<>>
        /\ (~out.threw /\ out.value.element \notin FailureElements
                /\ out.value.element # "Spinner") => Called("transformData")

\* a scatter pass on events that all lack y: the validator accepts, the
\* series is empty after the filter, the no-data state is shown
C12_Witness ==
    /\ op = "render" /\ widget = "scatter" /\ ~out.threw
    /\ out.value.element = "NoDataState"
    /\ out.value.calls = <<"nrqlInputIsValid", "transformData">>
    /\ Len(args.data.v[1].data) = 2

(***************************************************************************)
(* C13: for each widget, a tick that is not loading, carries no error and  *)
(* delivers zero rows ends in the no-data state: nothing throws, no method *)
(* is called on the empty set, and neither the unsupported-query state nor *)
(* a chart is shown.  (validateNRQLInput of the stacked bar reads          *)
(* data[0].metadata.)                                                      *)
(***************************************************************************)
C13_EmptyResultIsNoData ==
    (/\ op = "render" /\ Configured
     /\ ~args.loading /\ args.error.t # "error"
     /\ args.data.t = "array" /\ args.data.v = <<>>) =>
        /\ ~out.threw
        /\ out.value.element = "NoDataState"

(***************************************************************************)
(* C14: for each widget, a tick with an error and null data ends in the    *)
(* syntax-error state carrying the error's message; a tick with an error   *)
(* and non-null data is not a syntax error and goes on to the empty and    *)
(* shape checks, ending as the same tick without the error ends.  (The     *)
(* stacked bar returns ErrorState on any error.)                           *)
(***************************************************************************)
C14_SyntaxErrorCarriesMessage ==
    (op = "render" /\ Configured /\ ~args.loading /\ args.error.t = "error") =>
        IF args.data.t = "null"
        THEN /\ ~out.threw
             /\ out.value.element = "NrqlQueryError"
             /\ out.value.title = SyntaxErrorTitle
             /\ out.value.description = args.error.v
        ELSE LET tick == [args EXCEPT !.error = Null]
             IN  out = CASE widget = "gauge" -> GaugeRenderPass(props, tick)
                         [] widget = "stacked" -> StackedRenderPass(props, tick)
                         [] OTHER -> ScatterRenderPass(props, tick)

(***************************************************************************)
(* What a widget mounted for this pass alone computes: transformData with  *)
(* an empty Map of colors and unset range variables                        *)
(***************************************************************************)
FreshStackedSeries(p, data) == StackedTransformDataFrom(<<>>, p, data).value

FreshScatterResult(p, data) ==
    IF Len(uniqueNonAggregatesOf(data)) > 1
    THEN getNonAggregatesDataFrom(
             [xMin |-> Undefined, xMax |-> Undefined,
              yMin |-> Undefined, yMax |-> Undefined], data)
    ELSE getAggregatesData(p, data, uniqueAggregatesOf(data))

C16_LegendItemPerLabel ==
    (op = "render" /\ ~out.threw /\ out.value.element = "VictoryChart") =>
        LET items == out.value.chart.legendItems
            points == IF widget = "stacked" THEN Flatten(out.value.chart.series)
                      ELSE out.value.chart.series
            LabelAt(i) == IF widget = "stacked" THEN points[i].segmentLabel
                          ELSE Field(points[i], "facetGroupName")
            \* the position of the first point with the label of item n
            First(n) == Min({i \in 1..Len(points) : LabelAt(i) = items[n].label})
        IN  /\ \A i \in 1..Len(points) :
                  \E n \in 1..Len(items) : items[n].label = LabelAt(i)
            /\ \A n \in 1..Len(items) :
                  \E i \in 1..Len(points) : LabelAt(i) = items[n].label
            /\ \A n, m \in 1..Len(items) :
                  items[n].label = items[m].label => n = m
            /\ \A n, m \in 1..Len(items) : n < m => First(n) < First(m)
            /\ \A n \in 1..Len(items) :
                  items[n].color = Field(points[First(n)], "color")

\* a stacked bar chart with one segment of two bars: two points with the same
\* label, one legend item with the color of the first
C16_Witness ==
    /\ op = "render" /\ widget = "stacked" /\ ~out.threw
    /\ out.value.element = "VictoryChart"
    /\ Len(Flatten(out.value.chart.series)) = 2
    /\ Len(out.value.chart.legendItems) = 1
    /\ Flatten(out.value.chart.series)[1].color
           # args.data.v[2].metadata.color

(***************************************************************************)
(* Stacked bar: the color of a segment                                     *)
(***************************************************************************)
\* the color of the first of the rows at the positions rows
FirstColor(data, rows) == data[Min(rows)].metadata.color

(***************************************************************************)
(* C17 as claimed: every point of a segment has the metadata color of the  *)
(* first row of the input that has the segment's label, also when that row *)
(* is of the "Other" bar and "other" visibility is false.                  *)
(***************************************************************************)
C17_ColorOfFirstRow ==
    (widget = "stacked" /\ op = "transformData" /\ ~out.threw) =>
        \A i \in 1..Len(out.value) : \A j \in 1..Len(out.value[i]) :
            LET point == out.value[i][j]
                rows == {r \in 1..Len(args.data) :
                            SegmentLabelOf(args.data[r]) = point.segmentLabel}
            IN  point.color = FirstColor(args.data, rows)

(***************************************************************************)
(* C17 as amended: every point of a segment has the metadata color of the  *)
(* first retained row that has the segment's label; later rows never       *)
(* change it, and a row of the "Other" bar dropped because "other"         *)
(* visibility is false gives the segment no color.                         *)
(***************************************************************************)
C17_ColorOfFirstRetainedRow ==
    (widget = "stacked" /\ op = "transformData" /\ ~out.threw) =>
        \A i \in 1..Len(out.value) : \A j \in 1..Len(out.value[i]) :
            LET point == out.value[i][j]
                rows == {r \in RetainedRows(props.other.visible, args.data) :
                            SegmentLabelOf(args.data[r]) = point.segmentLabel}
            IN  point.color = FirstColor(args.data, rows)

\* visibility off; the first row of the segment is of the "Other" bar and is
\* dropped, the second row of the segment is retained and colors it
C17_Witness ==
    /\ widget = "stacked" /\ op = "transformData" /\ ~out.threw
    /\ ~props.other.visible
    /\ Len(args.data) = 2
    /\ BarLabelOf(args.data[1]) = "Other"
    /\ SegmentLabelOf(args.data[1]) = SegmentLabelOf(args.data[2])
    /\ Len(out.value) = 1
    /\ out.value[1][1].color = args.data[2].metadata.color
    /\ out.value[1][1].color # args.data[1].metadata.color

(***************************************************************************)
(* C18: on every result that nrqlInputIsValid of the scatter plot accepts, *)
(* transformData returns a { series, range } and never null, so that the   *)
(* destructuring in render cannot throw after a passed validation.         *)
(***************************************************************************)
C18_ValidatedIsNeverNull ==
    (/\ widget = "scatter" /\ op = "transformData"
     /\ ScatterNrqlInputIsValid(args.data)) =>
        /\ out.value # Null
        /\ DOMAIN out.value = {"series", "range"}

\* a result of one attribute and two aggregates: accepted for its
\* aggregates, transformed in aggregate mode
C18_Witness ==
    /\ widget = "scatter" /\ op = "transformData"
    /\ ScatterNrqlInputIsValid(args.data)
    /\ Cardinality(DistinctNonAggregates(args.data)) = 1
    /\ Cardinality(DistinctAggregates(args.data)) = 2
    /\ out.value # Null

====
